---- MODULE Spec2Model ----
(***************************************************************************)
(* AngularFirePaginator (src/unnamed/part_000, same logic in src/index.ts) *)
(* as a state machine.  The Firestore collection is a stable source of     *)
(* `collection` documents with ids 1..collection, each carrying the field  *)
(* rank = id.  items$ is the pipeline                                      *)
(*   paging$ -> tap (clear flags) -> filter (stall gate) -> switchMap      *)
(*           -> snapshotChanges -> tap (page processing) -> map (items).   *)
(* A query is built synchronously when its action reaches switchMap and    *)
(* its result is delivered by a later, separate step.                      *)
(***************************************************************************)
EXTENDS Integers, Sequences, FiniteSets, TLC

\* ---------------------------------------------------------------- bounds
MaxRecords == 3        \* the collection holds 0..MaxRecords documents
MaxPageSize == 2       \* pageSize ranges over 1..MaxPageSize
SetterRecords == 1     \* largest collection of SpecSetters
ScenarioRecords == 12  \* largest collection of the first/next/next scenario
ScenarioPageSize == 5  \* largest page size of the first/next/next scenario
FirstRecords == 2      \* largest collection of SpecFirst
MaxEntries == 2        \* longest sort / filter list of SpecValues
RoundTripRecords == 4  \* largest collection of SpecRoundTrip

VARIABLES
    collection,      \* number of documents of the (stable) data source
    pageSize,        \* this.pageSize
    sort,            \* this.sort   (PaginatorSort[] | null)
    filter,          \* this.filter (PaginatorFilter[] | null)
    stalled,         \* this.stalled
    paging,          \* value held by the BehaviorSubject paging$
    subscribed,      \* items$ has its subscriber
    inflight,        \* inner subscriptions of switchMap whose snapshot is awaited
    firstItemId,     \* this.firstItemId
    prevAnchor,      \* this.prevAnchor
    nextAnchor,      \* this.nextAnchor
    firstEnabled, lastEnabled, nextEnabled, previousEnabled,
    ev,              \* the step just taken: the call or the delivered result
    owed,            \* history: corrective action a short page has called for
    log              \* history: displayed ids of the pages emitted (scenario only)

flags == <<firstEnabled, lastEnabled, nextEnabled, previousEnabled>>
anchors == <<firstItemId, prevAnchor, nextAnchor>>
config == <<collection, pageSize, sort, filter>>
vars == <<collection, pageSize, sort, filter, stalled, paging, subscribed, inflight,
          firstItemId, prevAnchor, nextAnchor,
          firstEnabled, lastEnabled, nextEnabled, previousEnabled, ev, owed, log>>

\* ------------------------------------------------------------ data types
PaginatorActions == {"current", "first", "prev", "next", "last", "reset"}

\* undefined firstItemId / prevAnchor / nextAnchor (document ids start at 1)
NoDoc == 0

\* PaginatorSort[] | null and PaginatorFilter[] | null
Null == [null |-> TRUE, entries |-> <<>>]
List(s) == [null |-> FALSE, entries |-> s]

PaginatorSort == [field : {"rank"}, direction : {"asc", "desc"}]
PaginatorFilter == [field : {"rank"}, op : {">="}, val : {2}]

\* the specs the constructor and setSort / setFilter are called with
SortInputs == {Null, List(<<[field |-> "rank", direction |-> "desc"]>>)}
FilterInputs == {Null} \cup {List(<<f>>) : f \in PaginatorFilter}

Min(a, b) == IF a < b THEN a ELSE b
Max(a, b) == IF a < b THEN b ELSE a

\* ------------------------------------------------- Queryable Data Source
RECURSIVE Ascending(_)
Ascending(S) ==
    IF S = {} THEN <<>>
    ELSE LET m == CHOOSE x \in S : \A y \in S : x <= y
         IN  <<m>> \o Ascending(S \ {m})

Reverse(s) == [i \in 1..Len(s) |-> s[Len(s) + 1 - i]]

\* query.where(f.field, f.op, f.val) on a document whose rank is its id
Where(doc, f) == f.op = ">=" /\ doc >= f.val

\* the documents a query with these where clauses matches
Matching(q) ==
    {doc \in 1..collection : \A i \in 1..Len(q.where) : Where(doc, q.where[i])}

\* the direction the orderBy clauses give (document id ascending without one)
Direction(q) == IF q.orderBy = <<>> THEN "asc" ELSE q.orderBy[1].direction

Before(a, b, dir) == IF dir = "asc" THEN a < b ELSE a > b

Ordered(q) ==
    IF Direction(q) = "asc" THEN Ascending(Matching(q))
    ELSE Reverse(Ascending(Matching(q)))

\* startAt(anchor) keeps the anchor and what follows; endBefore(anchor) what precedes
Cursored(q) ==
    CASE q.cursor = "startAt" ->
            SelectSeq(Ordered(q), LAMBDA d : ~Before(d, q.anchor, Direction(q)))
      [] q.cursor = "endBefore" ->
            SelectSeq(Ordered(q), LAMBDA d : Before(d, q.anchor, Direction(q)))
      [] OTHER -> Ordered(q)

\* limit(n): the first n; limitToLast(n): the trailing n
Execute(q) ==
    LET s == Cursored(q)
    IN  IF q.bound = "limit" THEN SubSeq(s, 1, Min(q.n, Len(s)))
        ELSE SubSeq(s, Max(1, Len(s) - q.n + 1), Len(s))

\* --------------------------------------------------------- Query Builder
\* fs.collection(path, ref => ...): the bare collection reference
ref == [where |-> <<>>, orderBy |-> <<>>, cursor |-> "none", anchor |-> NoDoc,
        bound |-> "limit", n |-> 0]

applyFilter(query, flt) ==
    IF flt.null THEN query ELSE [query EXCEPT !.where = query.where \o flt.entries]

applySort(query, srt) ==
    IF srt.null THEN query ELSE [query EXCEPT !.orderBy = query.orderBy \o srt.entries]

\* queryFirst continuing from the held nextAnchor
queryFirstFromAnchor(query, ps) ==
    IF nextAnchor # NoDoc
    THEN [query EXCEPT !.cursor = "startAt", !.anchor = nextAnchor,
                       !.bound = "limit", !.n = ps + 1]
    ELSE [query EXCEPT !.bound = "limit", !.n = ps + 1]

queryFirst(query, ps) == [query EXCEPT !.bound = "limit", !.n = ps + 1]

\* queryPrev bounded from the start of the collection: limit for limitToLast
queryPrevFromStart(query, ps) ==
    IF prevAnchor # NoDoc
    THEN [query EXCEPT !.cursor = "endBefore", !.anchor = prevAnchor,
                       !.bound = "limit", !.n = ps + 1]
    ELSE [query EXCEPT !.bound = "limit", !.n = ps + 1]

queryPrev(query, ps) ==
    IF prevAnchor # NoDoc
    THEN [query EXCEPT !.cursor = "endBefore", !.anchor = prevAnchor,
                       !.bound = "limitToLast", !.n = ps + 1]
    ELSE [query EXCEPT !.bound = "limit", !.n = ps + 1]

queryNext(query, ps) ==
    IF nextAnchor # NoDoc
    THEN [query EXCEPT !.cursor = "startAt", !.anchor = nextAnchor,
                       !.bound = "limit", !.n = ps + 1]
    ELSE [query EXCEPT !.bound = "limit", !.n = ps + 1]

\* queryLast with the overfetch of the other queries
queryLastOverfetch(query, ps) == [query EXCEPT !.bound = "limitToLast", !.n = ps + 1]

queryLast(query, ps) == [query EXCEPT !.bound = "limitToLast", !.n = ps]

\* queryCurrent starting at the anchor its trace prints, nextAnchor
queryCurrentFromNext(query, ps) ==
    IF prevAnchor # NoDoc
    THEN [query EXCEPT !.cursor = "startAt", !.anchor = nextAnchor,
                       !.bound = "limit", !.n = ps + 1]
    ELSE [query EXCEPT !.bound = "limit", !.n = ps + 1]

queryCurrent(query, ps) ==
    IF prevAnchor # NoDoc
    THEN [query EXCEPT !.cursor = "startAt", !.anchor = prevAnchor,
                       !.bound = "limit", !.n = ps + 1]
    ELSE [query EXCEPT !.bound = "limit", !.n = ps + 1]

\* the query function handed to fs.collection for one paging action
BuildQuery(pagingAction, ps, flt, srt) ==
    LET query == applySort(applyFilter(ref, flt), srt)
    IN  CASE pagingAction = "current" -> queryCurrent(query, ps)
          [] pagingAction = "next" -> queryNext(query, ps)
          [] pagingAction = "prev" -> queryPrev(query, ps)
          [] pagingAction = "last" -> queryLast(query, ps)
          [] OTHER -> queryFirst(query, ps)

\* ------------------------------------------------------ items$ pipeline
\* one inner subscription of switchMap: the paging action, its query, and a history
\* mark: an action passed the stall gate after this one (overtaken)
Inner(pagingAction, query) ==
    [action |-> pagingAction, query |-> query, overtaken |-> FALSE]

Overtaken(inner) == {[r EXCEPT !.overtaken = TRUE] : r \in inner}

\* a gate that lets every action through
stallGateOpen(isStalled) == TRUE

\* filter(() => this.stalled === false)
stallGate(isStalled) == isStalled = FALSE

\* switchMap unsubscribes the previous inner observable and subscribes the new one
switchMap(inner, rec) == {rec}

\* the inner subscriptions after paging$.next(action) ran through the pipe
Pipe(inner, pagingAction, isStalled, ps, flt, srt) ==
    IF stallGate(isStalled)
    THEN switchMap(Overtaken(inner), Inner(pagingAction, BuildQuery(pagingAction, ps, flt, srt)))
    ELSE inner

\* tap: disable all navigation buttons during query
ClearFlags ==
    /\ firstEnabled' = FALSE
    /\ previousEnabled' = FALSE
    /\ nextEnabled' = FALSE
    /\ lastEnabled' = FALSE

\* paginate(action) = paging$.next(action), with the values of stalled, pageSize,
\* filter and sort the calling method has just assigned
paginate(pagingAction, isStalled, ps, flt, srt) ==
    /\ paging' = pagingAction
    /\ IF subscribed
       THEN /\ ClearFlags
            /\ inflight' = Pipe(inflight, pagingAction, isStalled, ps, flt, srt)
            /\ owed' = IF stallGate(isStalled) THEN "none" ELSE owed
       ELSE UNCHANGED <<flags, inflight, owed>>

NoEvent ==
    [kind |-> "init", op |-> "", action |-> "none", issued |-> FALSE, dropped |-> FALSE,
     wasStalled |-> FALSE, prior |-> "none", raw |-> <<>>, ps |-> 0, n |-> 0,
     corrective |-> "none", emitted |-> FALSE, page |-> <<>>,
     overtaken |-> FALSE, owes |-> "none", owed |-> "none", threw |-> FALSE,
     setter |-> "", arg |-> Null]

\* the record of a public method call that dispatched pagingAction ("none": nothing);
\* op is "nav" (first, last, next, previous, prev, paginate), "set" (the setters),
\* "stall" or "resume"; a setter call also records the setter and its argument
Called(op, pagingAction, isStalled) ==
    [NoEvent EXCEPT !.kind = "call", !.op = op, !.action = pagingAction,
                    !.issued = pagingAction # "none" /\ subscribed /\ stallGate(isStalled),
                    !.dropped = pagingAction # "none" /\ subscribed /\ ~stallGate(isStalled),
                    !.wasStalled = stalled]


\* ----------------------------------------------------------- page processing
\* lines 109-112: firstItemId is written for 'reset' and 'first' only
NewFirstItemId(pagingAction, items) ==
    IF Len(items) > 0 /\ pagingAction \in {"reset", "first"} THEN items[1] ELSE firstItemId

\* the short-page test of 'prev' applied to a 'last' page as well
CorrectiveOfLast(pagingAction, items, ps) ==
    IF Len(items) > 0
    THEN CASE pagingAction \in {"prev", "last"} ->
                IF Len(items) < ps + 1 THEN "reset" ELSE "none"
           [] pagingAction = "next" ->
                IF Len(items) < ps + 1 /\ items[1] # firstItemId THEN "last" ELSE "none"
           [] OTHER -> "none"
    ELSE IF pagingAction # "first" /\ pagingAction # "reset" THEN "reset" ELSE "none"

\* lines 113-134 and 153-159: the action the snapshot tap re-dispatches
Corrective(pagingAction, items, ps) ==
    IF Len(items) > 0
    THEN CASE pagingAction = "prev" -> IF Len(items) < ps + 1 THEN "reset" ELSE "none"
           [] pagingAction = "next" ->
                IF Len(items) < ps + 1 /\ items[1] # firstItemId THEN "last" ELSE "none"
           [] OTHER -> "none"
    ELSE IF pagingAction # "first" /\ pagingAction # "reset" THEN "reset" ELSE "none"

\* line 141: lastEnabled = nextEnabled = items.length == ps + 1
HasNextPage(items, ps) == Len(items) = ps + 1

\* line 146 evaluated against the firstItemId held before this page
NotFirstPageStale(items, fid) == items[1] # firstItemId

\* line 146: firstEnabled = previousEnabled = items[0].payload.doc.id !== firstItemId
NotFirstPage(items, fid) == items[1] # fid

\* line 149 falling back to the only record of a page of one
SecondDocOrOnly(items) == IF Len(items) >= 2 THEN items[2] ELSE items[1]

\* line 149: items[1]?.payload.doc
SecondDoc(items) == IF Len(items) >= 2 THEN items[2] ELSE NoDoc

\* line 150: items.slice(-1)[0].payload.doc
LastDoc(items) == items[Len(items)]

\* lines 164-171: the public items
Transform(items, ps) ==
    [i \in 1..Len(items) |-> [id |-> items[i], displayInPagination |-> (i - 1) < ps]]

Displayed(page) == SelectSeq(page, LAMBDA it : it.displayInPagination)
Ids(page) == [i \in 1..Len(page) |-> page[i].id]

\* the corrective action the short page of a prev / next query calls for
Owes(pagingAction, items, ps) ==
    CASE pagingAction = "prev" /\ Len(items) < ps + 1 -> "reset"
      [] pagingAction = "next" /\ Len(items) > 0 /\ Len(items) < ps + 1
            /\ items[1] # firstItemId -> "last"
      [] OTHER -> "none"

\* the snapshot of one inner subscription arrives: tap (lines 104-160), then map
Deliver(rec) ==
    LET items == Execute(rec.query)
        ps == pageSize
        corr == Corrective(rec.action, items, ps)
        \* the re-entrant paginate(corr) runs through the pipe before the tap goes on
        after == IF corr = "none" THEN inflight
                 ELSE Pipe(inflight, corr, stalled, pageSize, filter, sort)
        \* the subscription of rec, when the pipe has not unsubscribed it
        mine == {r \in after : r.action = rec.action /\ r.query = rec.query}
        emitted == mine # {}
        fid == NewFirstItemId(rec.action, items)
    IN  /\ paging' = IF corr = "none" THEN paging ELSE corr
        /\ inflight' = after \ mine
        /\ firstItemId' = fid
        /\ IF Len(items) > 0
           THEN /\ lastEnabled' = HasNextPage(items, ps)
                /\ nextEnabled' = HasNextPage(items, ps)
                /\ firstEnabled' = NotFirstPage(items, fid)
                /\ previousEnabled' = NotFirstPage(items, fid)
                /\ prevAnchor' = SecondDoc(items)
                /\ nextAnchor' = LastDoc(items)
           ELSE /\ IF corr = "none" THEN UNCHANGED flags ELSE ClearFlags
                /\ UNCHANGED <<prevAnchor, nextAnchor>>
        /\ owed' = IF Owes(rec.action, items, ps) # "none" THEN Owes(rec.action, items, ps)
                   ELSE IF emitted THEN "none" ELSE owed
        /\ ev' = [NoEvent EXCEPT !.kind = "result", !.action = rec.action,
                     !.issued = corr # "none" /\ stallGate(stalled),
                     !.dropped = corr # "none" /\ ~stallGate(stalled),
                     !.wasStalled = stalled, !.raw = items, !.ps = ps, !.n = rec.query.n,
                     !.corrective = corr, !.emitted = emitted,
                     !.page = IF emitted THEN Transform(items, ps) ELSE <<>>,
                     !.overtaken = rec.overtaken,
                     !.owes = Owes(rec.action, items, ps), !.owed = owed]
        /\ UNCHANGED <<config, stalled, subscribed>>

\* ------------------------------------------------------------ the steps
\* the state the constructor leaves, over at most maxRecords documents, called
\* with sortOptions of sorts and filterOptions of filters
ConstructedWith(maxRecords, maxPageSize, sorts, filters) ==
    /\ collection \in 0..maxRecords
    /\ pageSize \in 1..maxPageSize
    /\ sort \in sorts
    /\ filter \in filters
    /\ stalled \in BOOLEAN
    /\ paging = "first"
    /\ subscribed = FALSE
    /\ inflight = {}
    /\ firstItemId = NoDoc
    /\ prevAnchor = NoDoc
    /\ nextAnchor = NoDoc
    /\ firstEnabled = FALSE
    /\ lastEnabled = FALSE
    /\ nextEnabled = FALSE
    /\ previousEnabled = FALSE
    /\ ev = NoEvent
    /\ owed = "none"
    /\ log = <<>>

Constructed(maxRecords, maxPageSize) ==
    ConstructedWith(maxRecords, maxPageSize, SortInputs, FilterInputs)

Init == Constructed(MaxRecords, MaxPageSize)

\* a subscription that starts from 'first' whatever paging$ holds
SubscribeFromStart ==
    /\ ~subscribed
    /\ subscribed' = TRUE
    /\ ClearFlags
    /\ inflight' = Pipe(inflight, "first", stalled, pageSize, filter, sort)
    /\ ev' = [NoEvent EXCEPT !.kind = "subscribe", !.action = "first",
                             !.issued = stallGate(stalled), !.dropped = ~stallGate(stalled),
                             !.wasStalled = stalled]
    /\ UNCHANGED <<config, stalled, paging, anchors, owed, log>>

\* items$ gets its subscriber: the BehaviorSubject replays the action it holds
Subscribe ==
    /\ ~subscribed
    /\ subscribed' = TRUE
    /\ ClearFlags
    /\ inflight' = Pipe(inflight, paging, stalled, pageSize, filter, sort)
    /\ ev' = [NoEvent EXCEPT !.kind = "subscribe", !.action = paging,
                             !.issued = stallGate(stalled), !.dropped = ~stallGate(stalled),
                             !.wasStalled = stalled]
    /\ UNCHANGED <<config, stalled, paging, anchors, owed, log>>

Navigate(pagingAction) ==
    /\ paginate(pagingAction, stalled, pageSize, filter, sort)
    /\ ev' = Called("nav", pagingAction, stalled)
    /\ UNCHANGED <<config, stalled, subscribed, anchors, log>>

first == Navigate("first")
last == Navigate("last")
next == Navigate("next")
previous == Navigate("prev")
prev == Navigate("prev")
PaginateCall == \E a \in PaginatorActions : Navigate(a)

setFilter ==
    \E f \in FilterInputs :
        /\ filter' = f
        /\ paginate("reset", stalled, pageSize, f, sort)
        /\ ev' = [Called("set", "reset", stalled) EXCEPT !.setter = "setFilter", !.arg = f]
        /\ UNCHANGED <<collection, pageSize, sort, stalled, subscribed, anchors, log>>

\* forEach over the held array: entries of the same field are replaced in place
Replaced(entries, e) ==
    [i \in 1..Len(entries) |-> IF entries[i].field = e.field THEN e ELSE entries[i]]

\* this.filter.forEach throws a TypeError on null, before paginate is reached
setFilterValueOf(entries) ==
    \E f \in entries :
        IF filter.null
        THEN /\ ev' = [Called("set", "none", stalled) EXCEPT
                            !.threw = TRUE, !.setter = "setFilterValue", !.arg = f]
             /\ UNCHANGED <<config, stalled, paging, subscribed, inflight, anchors, flags,
                            owed, log>>
        ELSE /\ filter' = List(Replaced(filter.entries, f))
             /\ paginate("reset", stalled, pageSize, filter', sort)
             /\ ev' = [Called("set", "reset", stalled) EXCEPT
                            !.setter = "setFilterValue", !.arg = f]
             /\ UNCHANGED <<collection, pageSize, sort, stalled, subscribed, anchors, log>>

setFilterValue == setFilterValueOf(PaginatorFilter)

setSortValueOf(entries) ==
    \E s \in entries :
        IF sort.null
        THEN /\ ev' = [Called("set", "none", stalled) EXCEPT
                            !.threw = TRUE, !.setter = "setSortValue", !.arg = s]
             /\ UNCHANGED <<config, stalled, paging, subscribed, inflight, anchors, flags,
                            owed, log>>
        ELSE /\ sort' = List(Replaced(sort.entries, s))
             /\ paginate("reset", stalled, pageSize, filter, sort')
             /\ ev' = [Called("set", "reset", stalled) EXCEPT
                            !.setter = "setSortValue", !.arg = s]
             /\ UNCHANGED <<collection, pageSize, filter, stalled, subscribed, anchors, log>>

setSortValue == setSortValueOf(PaginatorSort)

setSort ==
    \E s \in SortInputs :
        /\ sort' = s
        /\ paginate("reset", stalled, pageSize, filter, s)
        /\ ev' = [Called("set", "reset", stalled) EXCEPT !.setter = "setSort", !.arg = s]
        /\ UNCHANGED <<collection, pageSize, filter, stalled, subscribed, anchors, log>>

setPageSize ==
    \E n \in 1..MaxPageSize :
        /\ pageSize' = n
        /\ paginate("current", stalled, n, filter, sort)
        /\ ev' = [Called("set", "current", stalled) EXCEPT !.setter = "setPageSize", !.n = n]
        /\ UNCHANGED <<collection, sort, filter, stalled, subscribed, anchors, log>>

\* setLoadingAndRefresh without its stalled branch
RefreshAlwaysCurrent(wasStalled, loading) == IF ~loading THEN "current" ELSE "none"

\* setLoadingAndRefresh replaying the action paging$ holds when it leaves a stall
RefreshReplay(wasStalled, loading) ==
    IF loading THEN "none" ELSE IF wasStalled THEN paging ELSE "current"

\* the action setLoadingAndRefresh(loading) dispatches ("none": it dispatches nothing)
RefreshAction(wasStalled, loading) ==
    IF wasStalled
    THEN IF ~loading THEN "reset" ELSE "none"
    ELSE IF ~loading THEN "current" ELSE "none"

setLoadingAndRefresh(op, loading) ==
    LET a == RefreshAction(stalled, loading)
    IN  /\ stalled' = loading
        /\ IF a = "none"
           THEN UNCHANGED <<paging, inflight, flags, owed>>
           ELSE paginate(a, loading, pageSize, filter, sort)
        /\ ev' = [Called(op, a, loading) EXCEPT
                    !.prior = IF ev.kind = "call" /\ ev.dropped /\ ev.op = "nav"
                              THEN ev.action ELSE "none"]
        /\ UNCHANGED <<config, subscribed, anchors, log>>

resume == setLoadingAndRefresh("resume", FALSE)
stall == setLoadingAndRefresh("stall", TRUE)

\* the data source answers the query of an inner subscription
Result == \E rec \in inflight : Deliver(rec) /\ UNCHANGED log

\* a failure after which the pipeline subscribes the same query again
FailRetried(rec) ==
    /\ ev' = [NoEvent EXCEPT !.kind = "error", !.action = rec.action,
                             !.wasStalled = stalled]
    /\ log' = <<"failed">>
    /\ UNCHANGED <<config, stalled, paging, subscribed, inflight, anchors, flags, owed>>

\* snapshotChanges() of an inner subscription fails: the pipe has no catchError and
\* no retry, so switchMap passes the error on to the subscriber of items$, which
\* ends that subscription and tears the pipeline down to paging$; log notes that a
\* subscription has failed
Fail(rec) ==
    /\ subscribed' = FALSE
    /\ inflight' = {}
    /\ ev' = [NoEvent EXCEPT !.kind = "error", !.action = rec.action,
                             !.wasStalled = stalled]
    /\ log' = <<"failed">>
    /\ UNCHANGED <<config, stalled, paging, anchors, flags, owed>>

Failure == \E rec \in inflight : Fail(rec)

\* navigation, page size, stall and resume over a collection whose sort and
\* filter are those given to the constructor
Next ==
    \/ Subscribe
    \/ first \/ last \/ next \/ previous \/ prev \/ PaginateCall
    \/ setPageSize
    \/ resume \/ stall
    \/ Result

Spec == Init /\ [][Next]_vars

\* every setter, with next / previous for the navigation, over a small collection
InitSetters == Constructed(SetterRecords, MaxPageSize)

NextSetters ==
    \/ Subscribe
    \/ next \/ previous
    \/ setFilter \/ setFilterValue \/ setSortValue \/ setSort \/ setPageSize
    \/ resume \/ stall
    \/ Result

SpecSetters == InitSetters /\ [][NextSetters]_vars

\* the caller of the scenario: an unfiltered collection in document order, larger
\* than a page, never stalled; first() is called once, before or right after the
\* subscription, then next() again and again, each call after the page of the call
\* before has settled
InitScenario ==
    /\ Constructed(ScenarioRecords, ScenarioPageSize)
    /\ sort = Null
    /\ filter = Null
    /\ stalled = FALSE
    /\ pageSize < collection

Settled == subscribed /\ inflight = {}

ScenarioFirst ==
    /\ ~subscribed \/ (Settled /\ Len(log) = 1)
    /\ ev.kind # "call"
    /\ first

ScenarioNext ==
    /\ Settled
    /\ Len(log) >= 1
    /\ Len(log) <= collection + 1
    /\ next

ScenarioResult ==
    \E rec \in inflight :
        /\ Deliver(rec)
        /\ log' = IF ev'.emitted THEN Append(log, Ids(Displayed(ev'.page))) ELSE log

NextScenario == Subscribe \/ ScenarioFirst \/ ScenarioNext \/ ScenarioResult

SpecScenario == InitScenario /\ [][NextScenario]_vars

\* the caller who looks at the pages: the last page emitted on items$ is kept (log
\* holds its raw ids); navigation and resume() in any interleaving with the results,
\* pageSize, sort and filter as constructed
RefreshResult ==
    \E rec \in inflight :
        /\ Deliver(rec)
        /\ log' = IF ev'.emitted THEN <<Ids(ev'.page)>> ELSE log

NextRefresh ==
    \/ Subscribe
    \/ first \/ last \/ next \/ previous
    \/ resume
    \/ RefreshResult

SpecRefresh == Init /\ [][NextRefresh]_vars

\* the caller who repeats first(): log keeps what the last page emitted for a first
\* action was and left behind (the emitted items, the four flags, firstItemId and
\* the anchors), the pageSize it was emitted and bounded with, and whether it was
\* the first such page (1) or a later one (2)
FirstOutcome(rec) ==
    [page |-> ev'.page, left |-> <<flags, anchors>>', ps |-> pageSize, n |-> rec.query.n,
     count |-> IF log = <<>> THEN 1 ELSE 2]

FirstResult ==
    \E rec \in inflight :
        /\ Deliver(rec)
        /\ log' = IF ev'.emitted /\ ev'.action = "first" THEN <<FirstOutcome(rec)>>
                  ELSE log

NextFirst ==
    \/ Subscribe
    \/ first \/ last \/ next \/ previous
    \/ setPageSize
    \/ resume \/ stall
    \/ FirstResult

InitFirst == Constructed(FirstRecords, MaxPageSize)

SpecFirst == InitFirst /\ [][NextFirst]_vars

\* the value setters on every shape of held spec: no spec, the empty list, and
\* lists of up to MaxEntries entries over two fields; items$ has no subscriber,
\* so that no query is built from these specs
Fields == {"rank", "name"}
SortEntries == [field : Fields, direction : {"asc", "desc"}]
FilterEntries == [field : Fields, op : {">="}, val : {2}]

Lists(S) == UNION {[1..n -> S] : n \in 0..MaxEntries}

InitValues ==
    ConstructedWith(SetterRecords, MaxPageSize,
                    {Null} \cup {List(l) : l \in Lists(SortEntries)},
                    {Null} \cup {List(l) : l \in Lists(FilterEntries)})

NextValues == setSortValueOf(SortEntries) \/ setFilterValueOf(FilterEntries)

SpecValues == InitValues /\ [][NextValues]_vars

\* a data source whose queries may fail: subscribing (again), navigation, stall and
\* resume in any interleaving with results and failures
NextFailure ==
    \/ Subscribe
    \/ first \/ next \/ previous
    \/ resume \/ stall
    \/ Failure
    \/ Result

SpecFailure == Init /\ [][NextFailure]_vars

\* the caller who waits for the page: an action is dispatched only when no query
\* is in flight, stall() at any time.  log tells whose query is in flight:
\* <<"corrective">> when the snapshot tap dispatched it, <<"corrected">> once the
\* page of a corrective action has been delivered
Waited(step) == inflight = {} /\ step

SettleResult ==
    \E rec \in inflight :
        /\ Deliver(rec)
        /\ log' = IF ev'.issued THEN <<"corrective">>
                  ELSE IF log = <<"corrective">> THEN <<"corrected">> ELSE <<>>

NextSettle ==
    \/ Subscribe
    \/ Waited(first) \/ Waited(last) \/ Waited(next) \/ Waited(previous)
    \/ Waited(setPageSize)
    \/ Waited(resume) \/ stall
    \/ SettleResult

SpecSettle == Init /\ [][NextSettle]_vars

\* the caller who pages forth and back, never stalled, each call made when no
\* query is in flight.  log keeps, of the page emitted last: its displayed ids
\* (shown) and nextEnabled (more); the caller's action of a correction in progress
\* (pending); and the round trip: trip = "next" when that page answered a next()
\* called on a page with nextEnabled, whose displayed ids are kept in from and
\* full telling that the next query itself returned pageSize+1 records; trip =
\* "back" when it answered the previous() called right after
NoTrip == [shown |-> <<>>, more |-> FALSE, pending |-> "none", trip |-> "none",
           from |-> <<>>, full |-> FALSE]

Trip == IF log = <<>> THEN NoTrip ELSE log[1]

RoundTripResult ==
    \E rec \in inflight :
        /\ Deliver(rec)
        /\ LET called == IF ev.kind \in {"call", "subscribe"} THEN ev.action
                         ELSE Trip.pending
               page == Ids(Displayed(ev'.page))
           IN  log' = IF ~ev'.emitted
                      THEN <<[Trip EXCEPT !.pending = called]>>
                      ELSE IF called = "next" /\ Trip.more
                      THEN <<[shown |-> page, more |-> nextEnabled', pending |-> "none",
                              trip |-> "next", from |-> Trip.shown,
                              full |-> (ev'.action = "next"
                                        /\ Len(ev'.raw) = pageSize + 1)]>>
                      ELSE IF called = "prev" /\ Trip.trip = "next"
                      THEN <<[shown |-> page, more |-> nextEnabled', pending |-> "none",
                              trip |-> "back", from |-> Trip.from, full |-> Trip.full]>>
                      ELSE <<[NoTrip EXCEPT !.shown = page, !.more = nextEnabled']>>

InitRoundTrip == Constructed(RoundTripRecords, MaxPageSize) /\ ~stalled

NextRoundTrip ==
    \/ Subscribe
    \/ Waited(first) \/ Waited(last) \/ Waited(next) \/ Waited(previous)
    \/ RoundTripResult

SpecRoundTrip == InitRoundTrip /\ [][NextRoundTrip]_vars

\* ---------------------------------------------------------------- claims
Emission == ev.kind = "result" /\ ev.emitted

\* C1 as stated: every emitted page is the result of the action dispatched last
\* (paging$ holds the action dispatched last, dropped by the stall gate or not).
EmittedPageIsOfLatestDispatch == Emission => ev.action = paging

\* switchMap alone: no inner subscription outlives an action that passed the stall
\* gate after it, so an emitted page is the result of the last action that passed.
EmittedPageIsOfLatestPassed ==
    /\ Emission => ~ev.overtaken
    /\ \A r \in inflight : ~r.overtaken
    /\ Cardinality(inflight) <= 1

\* C2: a page whose processing issues a corrective action that passes the gate
\* writes neither firstItemId nor the anchors nor the flags from then on: the
\* anchors keep their values and the flags stay as the dispatch cleared them.
SupersededPageWritesNothing ==
    [][(ev'.kind = "result" /\ ev'.issued)
        => /\ firstItemId' = firstItemId
           /\ prevAnchor' = prevAnchor
           /\ nextAnchor' = nextAnchor
           /\ ~firstEnabled' /\ ~previousEnabled' /\ ~nextEnabled' /\ ~lastEnabled']_vars

\* C3: a prev page of fewer than pageSize+1 records is not emitted, and the page
\* emitted next (the caller dispatching nothing that passes the gate meanwhile)
\* is the page of a reset query, with firstEnabled = previousEnabled = FALSE.
ShortPrevIsCorrected ==
    /\ (ev.kind = "result" /\ ev.owes = "reset") => ~ev.emitted
    /\ (Emission /\ ev.owed = "reset")
          => (ev.action = "reset" /\ ~firstEnabled /\ ~previousEnabled)

\* C4: a non-empty next page of fewer than pageSize+1 records that does not start
\* at firstItemId is not emitted, and the page emitted next (the caller
\* dispatching nothing that passes the gate meanwhile) is the page of a last query.
ShortNextIsCorrected ==
    /\ (ev.kind = "result" /\ ev.owes = "last") => ~ev.emitted
    /\ (Emission /\ ev.owed = "last") => ev.action = "last"

\* the ids 1..n in order
Upto(n) == [i \in 1..n |-> i]

\* the trailing n records of an unfiltered collection in document order
Trailing(n) == [i \in 1..n |-> collection - n + i]

\* the pages the scenario of 12 records and page size 5 may have emitted so far:
\* [r1..r5] (once more when first() is called after the subscription),
\* [r6..r10], then [r8..r12] for every further next()
ScenarioLog ==
    LET calls == IF Len(log) >= 2 /\ log[2] = log[1] THEN Tail(log) ELSE log
    IN  \A i \in 1..Len(calls) :
            calls[i] = CASE i = 1 -> Upto(5)
                         [] i = 2 -> <<6, 7, 8, 9, 10>>
                         [] OTHER -> <<8, 9, 10, 11, 12>>

\* C5: on a stable collection of M > N records, every next() whose fetch is short
\* on a non-first page emits nothing itself and is followed by the emission of
\* exactly the trailing N records, with nextEnabled = lastEnabled = FALSE and
\* firstEnabled = previousEnabled = TRUE; for M = 12, N = 5 the pages emitted
\* are [r1..r5], [r6..r10], [r8..r12].
EndOfCollectionSnap ==
    /\ (ev.kind = "result" /\ ev.owes = "last")
          => (~ev.emitted /\ \E r \in inflight : r.action = "last")
    /\ (Emission /\ ev.owed = "last")
          => /\ ev.action = "last"
             /\ Ids(ev.page) = Trailing(pageSize)
             /\ Ids(Displayed(ev.page)) = Trailing(pageSize)
             /\ ~nextEnabled /\ ~lastEnabled
             /\ firstEnabled /\ previousEnabled
    /\ (Emission /\ ev.action = "next") => Len(ev.raw) = pageSize + 1
    /\ (collection = 12 /\ pageSize = 5) => ScenarioLog

\* the third page of the scenario of 12 records and page size 5 has been emitted
ScenarioSnapped ==
    /\ collection = 12 /\ pageSize = 5
    /\ Emission /\ ev.owed = "last"
    /\ log = <<Upto(5), <<6, 7, 8, 9, 10>>, <<8, 9, 10, 11, 12>>>>

\* C6: at every emission nextEnabled = lastEnabled, both TRUE exactly when the
\* raw fetch returned pageSize+1 records, hence FALSE for a last page and for an
\* empty page.
NextFlagsAtEmission ==
    Emission =>
        /\ nextEnabled = lastEnabled
        /\ nextEnabled <=> (Len(ev.raw) = pageSize + 1)
        /\ (ev.action = "last" \/ ev.raw = <<>>) => (~nextEnabled /\ ~lastEnabled)

\* C7: after each emitted non-empty page previousEnabled = firstEnabled = (the id
\* of its record 0 differs from firstItemId), whatever action produced the page.
PrevFlagsAtEmission ==
    (Emission /\ ev.raw # <<>>) =>
        /\ previousEnabled = firstEnabled
        /\ previousEnabled <=> (ev.raw[1] # firstItemId)

\* a next page that is not the first page has been emitted
EmittedBeyondFirstPage ==
    Emission /\ ev.action = "next" /\ previousEnabled /\ firstItemId # NoDoc

\* C8: stall() leaves stalled = TRUE and dispatches nothing, and no step that
\* ends with the engine stalled (any navigation or setter call, a result) issues
\* a query: the inner subscriptions only shrink.
StallGateIssuesNoQuery ==
    [][/\ (ev'.kind = "call" /\ ev'.op = "stall")
            => (stalled' /\ paging' = paging /\ inflight' = inflight)
       /\ stalled' => inflight' \subseteq inflight]_vars

\* a setter was called while stalled with a query in flight, and its action dropped
SetterDroppedWhileStalled ==
    stalled /\ ev.kind = "call" /\ ev.op = "set" /\ ev.dropped /\ inflight # {}

\* C9: resume() leaves stalled = FALSE and dispatches exactly one action, reset
\* when the engine was stalled and current when it was active; once subscribed
\* the query of that action is the one in flight.
ResumeDispatches ==
    [][(ev'.kind = "call" /\ ev'.op = "resume") =>
          LET a == IF stalled THEN "reset" ELSE "current"
          IN  /\ ~stalled'
              /\ paging' = a
              /\ subscribed =>
                    inflight' = {Inner(a, BuildQuery(a, pageSize, filter, sort))}]_vars

\* resume() was called on a stalled, subscribed engine and the reset is in flight
ResumedFromStall ==
    /\ ev.kind = "call" /\ ev.op = "resume" /\ ev.wasStalled /\ subscribed
    /\ \E r \in inflight : r.action = "reset"

\* C10 as stated: a navigation action accepted (and dropped) while stalled has
\* its query issued once resume() is called.
DroppedActionRunsOnResume ==
    (ev.kind = "call" /\ ev.op = "resume" /\ ev.prior # "none")
        => \E r \in inflight : r.query = BuildQuery(ev.prior, pageSize, filter, sort)

\* C10 amended: a navigation action dispatched while stalled is dropped for good:
\* the resume() that follows issues the query of reset and no other.
DroppedActionIsReplacedByReset ==
    (ev.kind = "call" /\ ev.op = "resume" /\ ev.prior # "none")
        => /\ paging = "reset"
           /\ inflight = {Inner("reset", BuildQuery("reset", pageSize, filter, sort))}

\* resume() right after a next() that the gate dropped
ResumedAfterDroppedNext ==
    /\ ev.kind = "call" /\ ev.op = "resume" /\ ev.prior = "next"
    /\ nextAnchor # NoDoc /\ inflight # {}

\* C11: on a stable source with unchanged pageSize, the page emitted for a current
\* action has the same item sequence, starting at the same first record, as the
\* page emitted before it.
CurrentRefreshesPage ==
    [][(ev'.kind = "result" /\ ev'.emitted /\ ev'.action = "current" /\ log # <<>>)
          => Ids(ev'.page) = log[1]]_vars

\* C12: setPageSize(n) sets pageSize to n and dispatches exactly one current action
\* (its query the only one in flight when it passes the gate, none issued
\* otherwise); the page emitted for a current query bounded with n+1 starts at the
\* record prevAnchor holds (it is the first construction when prevAnchor is unset),
\* carries at most n+1 raw records and at most n items flagged displayInPagination.
SetPageSizeIssuesCurrent ==
    [][/\ (ev'.kind = "call" /\ ev'.op = "set" /\ ev'.action = "current")
            => /\ pageSize' = ev'.n
               /\ paging' = "current"
               /\ IF ev'.issued
                  THEN inflight' = {Inner("current",
                                          BuildQuery("current", ev'.n, filter, sort))}
                  ELSE inflight' = inflight
       /\ (ev'.kind = "result" /\ ev'.emitted /\ ev'.action = "current")
            => \A rec \in inflight :
                  LET n == rec.query.n - 1
                  IN  /\ Len(ev'.page) <= n + 1
                      /\ Len(Displayed(ev'.page)) <= n
                      /\ IF prevAnchor # NoDoc
                         THEN ev'.page # <<>> /\ ev'.page[1].id = prevAnchor
                         ELSE Ids(ev'.page) = Execute(queryFirst(
                                  applySort(applyFilter(ref, filter), sort), n))]_vars

\* C13: against an unchanged source, sort, filter and pageSize (the pageSize of
\* both pages being the one their queries were bounded with), the page emitted for
\* a first action has the same items (ids and displayInPagination) as the page
\* emitted for the first action before it, and leaves the same flags, firstItemId
\* and anchors.
FirstIsIdempotent ==
    [][(/\ ev'.kind = "result" /\ ev'.emitted /\ ev'.action = "first"
        /\ ev'.n = pageSize + 1
        /\ log # <<>> /\ log[1].ps = pageSize /\ log[1].n = pageSize + 1)
          => (ev'.page = log[1].page /\ <<flags, anchors>>' = log[1].left)]_vars

\* a second first page has been emitted, of a collection of several pages
FirstRepeated ==
    /\ Emission /\ ev.action = "first" /\ log # <<>> /\ log[1].count = 2
    /\ log[1].ps = pageSize /\ log[1].n = pageSize + 1
    /\ collection > pageSize /\ nextEnabled /\ ~previousEnabled

\* C14: in every emitted page the item at index i carries the id of raw record i
\* and displayInPagination = (i < pageSize); a page of an action other than last
\* has at most pageSize+1 records, at most pageSize of them flagged visible and
\* the tail beyond pageSize flagged hidden; a last page has at most pageSize
\* records, all flagged visible.
ItemTransformer ==
    Emission =>
        /\ Len(ev.page) = Len(ev.raw)
        /\ \A i \in 1..Len(ev.page) :
              /\ ev.page[i].id = ev.raw[i]
              /\ ev.page[i].displayInPagination = (i - 1 < pageSize)
        /\ ev.action # "last" =>
              /\ Len(ev.page) <= pageSize + 1
              /\ Len(Displayed(ev.page)) <= pageSize
              /\ \A i \in 1..Len(ev.page) : i > pageSize => ~ev.page[i].displayInPagination
        /\ ev.action = "last" =>
              /\ Len(ev.page) <= pageSize
              /\ \A i \in 1..Len(ev.page) : ev.page[i].displayInPagination

\* the first pageSize+1 records of the collection under the held filter and sort
FirstPage ==
    LET all == Ordered(applySort(applyFilter(ref, filter), sort))
    IN  SubSeq(all, 1, Min(pageSize + 1, Len(all)))

\* C15: each call of setSort, setFilter, setSortValue and setFilterValue updates
\* the held spec (to the argument, or with the argument in place of every entry of
\* its field) and dispatches exactly one reset, whose query, built from the new
\* spec, is the one in flight when the engine is subscribed and not stalled; the
\* page emitted for it is the first page under the new sort / filter, and
\* firstItemId is the id of its first record.
SettersIssueReset ==
    [][/\ (ev'.kind = "call" /\ ev'.op = "set" /\ ev'.setter # "setPageSize")
            => /\ ~ev'.threw
               /\ ev'.setter = "setSort" => sort' = ev'.arg
               /\ ev'.setter = "setFilter" => filter' = ev'.arg
               /\ ev'.setter = "setSortValue" =>
                     \A i \in 1..Len(sort'.entries) :
                         sort'.entries[i].field = ev'.arg.field => sort'.entries[i] = ev'.arg
               /\ ev'.setter = "setFilterValue" =>
                     \A i \in 1..Len(filter'.entries) :
                         filter'.entries[i].field = ev'.arg.field
                             => filter'.entries[i] = ev'.arg
               /\ paging' = "reset"
               /\ IF subscribed /\ ~stalled
                  THEN inflight' = {Inner("reset",
                                          BuildQuery("reset", pageSize, filter', sort'))}
                  ELSE inflight' = inflight
       /\ (ev'.kind = "result" /\ ev'.emitted /\ ev'.action = "reset")
            => \A rec \in inflight :
                  rec.query = BuildQuery("reset", pageSize, filter, sort)
                      => /\ Ids(ev'.page) = FirstPage
                         /\ ev'.page # <<>> => firstItemId' = ev'.page[1].id]_vars

\* no entry of the held spec has this field (no spec and the empty list included)
Absent(held, field) == \A i \in 1..Len(held.entries) : held.entries[i].field # field

\* the held spec with every entry of the field of e replaced by e, in place
WithValue(held, e) ==
    [held EXCEPT !.entries = [i \in 1..Len(held.entries) |->
                                 IF held.entries[i].field = e.field THEN e
                                 ELSE held.entries[i]]]

\* C16: whatever the held spec is (no spec, the empty list, a list of other
\* fields), setSortValue / setFilterValue with a field that is absent raises no
\* error and leaves the spec unchanged; with a field that is present exactly the
\* entries of that field are replaced and the order of the entries is kept.
ValueSettersIgnoreMisuse ==
    [][/\ (ev'.kind = "call" /\ ev'.setter = "setSortValue")
            => /\ ~ev'.threw
               /\ sort' = IF Absent(sort, ev'.arg.field) THEN sort
                          ELSE WithValue(sort, ev'.arg)
       /\ (ev'.kind = "call" /\ ev'.setter = "setFilterValue")
            => /\ ~ev'.threw
               /\ filter' = IF Absent(filter, ev'.arg.field) THEN filter
                            ELSE WithValue(filter, ev'.arg)]_vars

\* a subscription of items$ has failed and the caller has not subscribed again
FailedSubscription == log # <<>> /\ ~subscribed

\* C17 as stated: after a failure, an action the caller re-issues (the engine not
\* stalled) has its query issued, so that pages are delivered again.
ReissuedActionRecovers ==
    (FailedSubscription /\ ev.kind = "call" /\ ev.action # "none" /\ ~stalled)
        => inflight # {}

\* C17 amended: a failure ends the subscription and nothing is retried: no query
\* is in flight, whatever action the caller re-issues, until the caller subscribes
\* again; the new subscription replays the stored action and, the engine not
\* stalled, issues its query.
FailureIsTerminal ==
    /\ ev.kind = "error" => ~subscribed
    /\ FailedSubscription => (inflight = {} /\ ev.kind # "result" /\ ~ev.issued)
    /\ (log # <<>> /\ ev.kind = "subscribe" /\ ~stalled)
          => inflight = {Inner(paging, BuildQuery(paging, pageSize, filter, sort))}

\* after a failure and a next() that issued nothing, the caller has subscribed
\* again and its query is in flight
ResubscribedAfterFailure ==
    /\ log # <<>> /\ ev.kind = "subscribe" /\ ~stalled
    /\ paging = "next" /\ nextAnchor # NoDoc /\ inflight # {}

\* C18: paging$ holds exactly one action, first after construction; every
\* dispatch (a call of the caller, a corrective action) replaces it and a step that
\* dispatches nothing keeps it; the subscription of items$ processes the action
\* held at that moment and no other: its query is the only one issued (none when
\* stalled).
ChannelReplaysLatest ==
    [][/\ paging' \in PaginatorActions
       /\ ev.kind = "init" => paging = "first"
       /\ (ev'.kind = "call" /\ ev'.action # "none") => paging' = ev'.action
       /\ (ev'.kind = "call" /\ ev'.action = "none") => paging' = paging
       /\ (ev'.kind = "result" /\ ev'.corrective # "none") => paging' = ev'.corrective
       /\ (ev'.kind = "result" /\ ev'.corrective = "none") => paging' = paging
       /\ ev'.kind = "subscribe" =>
             /\ paging' = paging
             /\ ev'.action = paging
             /\ inflight' = IF stalled THEN {}
                            ELSE {Inner(paging, BuildQuery(paging, pageSize, filter, sort))}
             /\ (ev.kind = "call" /\ ev.action # "none") => ev'.action = ev.action]_vars

\* items$ was subscribed right after a last() that followed other calls, and the
\* query of last is the one in flight
SubscribedAfterPaginate ==
    /\ ev.kind = "subscribe" /\ ev.action = "last" /\ ~stalled
    /\ inflight = {Inner("last", BuildQuery("last", pageSize, filter, sort))}

\* C19: on a stable source every delivered result either emits its page or
\* dispatches a corrective action whose query is then in flight, and the result of
\* a corrective reset or last dispatches no further correction and emits its
\* page: a caller action is followed by at most one corrective action and, after
\* at most two results, by an emitted page.
CorrectionsSettle ==
    [][/\ ev'.kind = "result"
            => \/ ev'.emitted
               \/ ev'.issued /\ inflight' = {Inner(ev'.corrective,
                                    BuildQuery(ev'.corrective, pageSize, filter, sort))}
       /\ (ev'.kind = "result" /\ log = <<"corrective">>)
            => /\ ev'.action \in {"reset", "last"}
               /\ ev'.corrective = "none"
               /\ ev'.emitted
               /\ inflight' = {}]_vars

\* the page of the reset that corrected a short prev page has been emitted
CorrectedByReset ==
    Emission /\ log = <<"corrected">> /\ ev.action = "reset" /\ ev.owed = "reset"
        /\ ev.raw # <<>>

\* the position of a record in the filtered, sorted collection all, counted from 1
\* (the position it would take when the filter leaves it out)
Position(all, doc, dir) == Cardinality({i \in 1..Len(all) : Before(all[i], doc, dir)}) + 1

\* the rows of the Query Builder table: the records of the filtered, sorted
\* collection an action is to return for page size ps and the held anchors
Table(pagingAction, ps, flt, srt) ==
    LET q == applySort(applyFilter(ref, flt), srt)
        all == Ordered(q)
        len == Len(all)
        From(doc) == SubSeq(all, Position(all, doc, Direction(q)),
                            Min(len, Position(all, doc, Direction(q)) + ps))
        Preceding(doc) == SubSeq(all, Max(1, Position(all, doc, Direction(q)) - ps - 1),
                                 Position(all, doc, Direction(q)) - 1)
        First == SubSeq(all, 1, Min(len, ps + 1))
    IN  CASE pagingAction = "next" /\ nextAnchor # NoDoc -> From(nextAnchor)
          [] pagingAction = "prev" /\ prevAnchor # NoDoc -> Preceding(prevAnchor)
          [] pagingAction = "current" /\ prevAnchor # NoDoc -> From(prevAnchor)
          [] pagingAction = "last" -> SubSeq(all, Max(1, len - ps + 1), len)
          [] OTHER -> First

\* C20: whenever a query is issued (by a call, by the subscription, by a
\* corrective dispatch), it returns the records its row of the Query Builder table
\* names, for the action, the page size, filter and sort of the dispatch and the
\* anchors held at it.
QueryBuilderTable ==
    [][ev'.issued =>
          \A r \in inflight' :
              Execute(r.query) = Table(r.action, pageSize', filter', sort')]_vars

\* a prev query is in flight that returns the pageSize+1 records before prevAnchor
PrevQueryIssued ==
    /\ ev.issued /\ prevAnchor # NoDoc
    /\ \E r \in inflight :
          /\ r.action = "prev" /\ r.query.cursor = "endBefore"
          /\ Len(Execute(r.query)) = pageSize + 1

\* the records of a raw page
Records(raw) == {raw[i] : i \in 1..Len(raw)}

\* C21 as stated: the anchors change only when a non-empty page is processed
\* (so both are unset until the first one), and every processed non-empty page
\* overwrites both with records of that page: prevAnchor with the record at index
\* 1, nextAnchor with the last record.
AnchorsAreRecordsOfPage ==
    [][/\ (ev'.kind # "result" \/ ev'.raw = <<>>)
            => (prevAnchor' = prevAnchor /\ nextAnchor' = nextAnchor)
       /\ (ev'.kind = "result" /\ ev'.raw # <<>>)
            => /\ prevAnchor' \in Records(ev'.raw)
               /\ Len(ev'.raw) >= 2 => prevAnchor' = ev'.raw[2]
               /\ nextAnchor' = ev'.raw[Len(ev'.raw)]]_vars

\* C21 amended: the anchors change only when a non-empty page is processed, and
\* every processed non-empty page overwrites both: nextAnchor with its last
\* record, prevAnchor with its record at index 1 when it has two records or more
\* and with no record (unset) when it has one.
AnchorUpdate ==
    [][/\ (ev'.kind # "result" \/ ev'.raw = <<>>)
            => (prevAnchor' = prevAnchor /\ nextAnchor' = nextAnchor)
       /\ (ev'.kind = "result" /\ ev'.raw # <<>>)
            => /\ prevAnchor' = IF Len(ev'.raw) >= 2 THEN ev'.raw[2] ELSE NoDoc
               /\ nextAnchor' = ev'.raw[Len(ev'.raw)]]_vars

\* a last page of one record, beyond the first page, has been processed and has
\* left prevAnchor unset
SingleRecordPageProcessed ==
    /\ ev.kind = "result" /\ ev.action = "last" /\ Len(ev.raw) = 1
    /\ previousEnabled /\ prevAnchor = NoDoc /\ nextAnchor = ev.raw[1]

\* C22: a result of zero records leaves firstItemId and both anchors unchanged;
\* for first / reset the empty page is emitted, no action is dispatched and the
\* four flags are false; for any other action exactly one corrective reset is
\* issued (its query the one in flight) and the empty page is not emitted.
EmptyResult ==
    [][(ev'.kind = "result" /\ ev'.raw = <<>>) =>
          /\ anchors' = anchors
          /\ ev'.action \in {"first", "reset"} =>
                /\ ev'.emitted
                /\ ev'.corrective = "none" /\ paging' = paging /\ inflight' = {}
                /\ ~firstEnabled' /\ ~previousEnabled' /\ ~nextEnabled' /\ ~lastEnabled'
          /\ ev'.action \notin {"first", "reset"} =>
                /\ ev'.corrective = "reset" /\ paging' = "reset"
                /\ inflight' = {Inner("reset", BuildQuery("reset", pageSize, filter, sort))}
                /\ ~ev'.emitted]_vars

NoFlag == ~firstEnabled /\ ~previousEnabled /\ ~nextEnabled /\ ~lastEnabled

\* C23: every dispatched action (of a call or of the subscription, passed or
\* dropped by the stall gate, or corrective) leaves the four flags false, and
\* while a query is in flight the four flags are false.
FlagsFalseDuringQuery ==
    /\ (ev.kind \in {"call", "subscribe"} /\ ev.action # "none" /\ subscribed) => NoFlag
    /\ (ev.kind = "result" /\ ev.corrective # "none") => NoFlag
    /\ inflight # {} => NoFlag

\* C24 as stated: when next() is called on an emitted page with nextEnabled and,
\* its page settled, previous() is called, the page then emitted displays exactly
\* the items of the page shown before next().
NextPreviousRoundTrip == Trip.trip = "back" => Trip.shown = Trip.from

\* C24 amended: the round trip holds when the page of next() is the full page of
\* the next query itself (pageSize+1 records, no correction to last).
FullNextPreviousRoundTrip ==
    (Trip.trip = "back" /\ Trip.full) => Trip.shown = Trip.from

\* next() from a page beyond the first page fetched a full page, and previous()
\* has brought the caller back
WentForthAndBack ==
    /\ Emission /\ Trip.trip = "back" /\ Trip.full
    /\ previousEnabled /\ Trip.shown # <<>> /\ Trip.shown = Trip.from

\* C25: whenever an emitted non-empty page starts at the first record of the
\* filtered, sorted collection, previousEnabled = firstEnabled = FALSE.
FirstPageDisablesPrevious ==
    (Emission /\ ev.raw # <<>> /\ FirstPage # <<>> /\ ev.raw[1] = FirstPage[1])
        => (~previousEnabled /\ ~firstEnabled)

\* C26: while the engine is stalled a query result emits no page, changes neither
\* firstItemId nor the anchors nor the flags, and issues no corrective query.
StalledResultIsHeld ==
    [][(stalled /\ ev'.kind = "result")
          => /\ ~ev'.emitted
             /\ anchors' = anchors
             /\ flags' = flags
             /\ ~ev'.issued]_vars

\* C27: every processed non-empty page is interpreted with the pageSize its
\* query was bounded with: the pageSize read for the short-page tests, the flags
\* and displayInPagination is the bound of a last query, and the bound less the
\* overfetched record of any other query.
PageSizeOfQuery ==
    (ev.kind = "result" /\ ev.raw # <<>>)
        => ev.ps = IF ev.action = "last" THEN ev.n ELSE ev.n - 1

====
